---- MODULE Spec2Model ----
(***************************************************************************)
(* Model of src/src/components/Compass.tsx: the bearing calculator         *)
(* (calculateBearing, bearingToDirection), the location effect that stores *)
(* the target bearing and its label, and the animation effect whose        *)
(* self-rescheduling step eases the displayed angle toward the target.     *)
(*                                                                         *)
(* Angles are held in fixed point, one unit = 1/100 degree, so that the    *)
(* sector boundaries (11.25 degrees), the snap threshold (0.3 degrees) and *)
(* the ease factor (0.18) are exact integers or integer ratios.  Products  *)
(* that are not whole units are rounded to the nearest unit.               *)
(***************************************************************************)
EXTENDS Integers, Naturals, Sequences, FiniteSets, TLC

VARIABLES lifecycle, previousLocation, busLocation, direction, degrees,
          animatedDeg, animRef, rafRef, frames, effectDue, step, ticks, updates

vars == <<lifecycle, previousLocation, busLocation, direction, degrees,
          animatedDeg, animRef, rafRef, frames, effectDue, step, ticks, updates>>

\* the props of the current render
props == <<previousLocation, busLocation>>

(* ------------------------------ bounds --------------------------------- *)
\* number of position updates (prop changes) after mount
MaxUpdates == 1
\* the tick counter saturates here
MaxTickCount == 40

(* --------------------------- arithmetic -------------------------------- *)
\* n degrees in fixed point
Deg(n) == 100 * n
Full == Deg(360)
Half == Deg(180)
\* 0.3 degrees
SnapThreshold == 30
\* 0.18 as a percentage
EasePct == 18
\* 22.5 degrees
SectorWidth == 2250

\* an absent point (null prop)
NULL == [null |-> TRUE]
\* rafRef.current holding null; handles are positive, so 0 is as falsy
NoHandle == 0

Abs(x) == IF x < 0 THEN -x ELSE x

\* JavaScript %: the remainder takes the sign of the dividend
JsMod(a, n) == IF a >= 0 THEN a % n ELSE -((-a) % n)

\* a * num / den rounded to the nearest unit
MulRatio(a, num, den) ==
    IF a >= 0 THEN (2 * a * num + den) \div (2 * den)
              ELSE -((2 * (-a) * num + den) \div (2 * den))

\* Math.floor in place of Math.round
MathFloor(a, den) == a \div den

\* Math.round(a / den) for a >= 0: floor(a/den + 1/2)
MathRound(a, den) == (2 * a + den) \div (2 * den)

(* ------------------------------ inputs --------------------------------- *)
Point(lat, lng) == [lat |-> lat, lng |-> lng]
Pole == Point(Deg(90), 0)
\* longitudes of the equator points the model feeds in
Lngs == {Deg(170), -Deg(170), 0}
PrevPoints == {NULL, Pole}
BusPoints == {NULL, Pole} \cup {Point(0, l) : l \in Lngs}
\* every longitude of the fixed-point grid
FineLngs == (-Half + 1) .. Half
FineBusPoints == {Point(0, l) : l \in FineLngs}

(* ------------------------- BearingCalculator --------------------------- *)
\* Math.atan2(y, x) * 180 / PI of lines 27-34 for a start at the north pole
\* (cos(lat1) = 0, sin(lat1) = 1) and an end on the equator: y = sin(dLng),
\* x = -cos(dLng), so the angle is 180 - dLng taken into (-180, 180].
Atan2Deg(start, end) ==
    LET dLng == end.lng - start.lng
    IN  IF dLng >= 0 THEN Half - dLng ELSE -Half - dLng

\* the remainder alone, without the added turn
NormalizeNoTurn(bearing) == JsMod(bearing, Full)

Normalize(bearing) == JsMod(bearing + Full, Full)

\* the bearing without the same-coordinates test of line 23
calculateBearingNoDegenerate(start, end) ==
    IF start = NULL \/ end = NULL
    THEN 0
    ELSE Normalize(Atan2Deg(start, end))

calculateBearing(start, end) ==
    IF start = NULL \/ end = NULL
       \/ (start.lat = end.lat /\ start.lng = end.lng)
    THEN 0
    ELSE Normalize(Atan2Deg(start, end))

directions == <<"N", "NNE", "NE", "ENE", "E", "ESE", "SE", "SSE",
                "S", "SSW", "SW", "WSW", "W", "WNW", "NW", "NNW">>

\* the index without the wrap of 16 to 0
DirectionIndexNoMod(bearing) == MathRound(bearing, SectorWidth)

DirectionIndex(bearing) == JsMod(MathRound(bearing, SectorWidth), 16)

\* directions[index]; an index outside the table reads undefined
bearingToDirection(bearing) ==
    LET index == DirectionIndex(bearing)
    IN  IF index + 1 \in DOMAIN directions THEN directions[index + 1]
                                          ELSE "undefined"

(* --------------------------- HeadingAnimator --------------------------- *)
\* the raw difference, without the wrap into one turn
DeltaNaive(target, current) == target - current

\* a bias of 180 in place of 540: the dividend can be negative
DeltaNoBias(target, current) == JsMod(target - current + Half, Full) - Half

\* shortest angular distance, line 66
Delta(target, current) == JsMod(target - current + Deg(540), Full) - Half

\* the eased angle without the wrap into one turn
EaseNoWrap(current, delta) == current + MulRatio(delta, EasePct, 100)

\* an ease factor above 1 (1.18 for 0.18): every step overshoots
EaseOvershoot(current, delta) ==
    JsMod(current + MulRatio(delta, 100 + EasePct, 100) + Full, Full)

\* line 76
Ease(current, delta) ==
    JsMod(current + MulRatio(delta, EasePct, 100) + Full, Full)

\* snapping only on an exact hit, without the threshold
IsSnapExact(delta) == delta = 0

\* a threshold of 3 degrees in place of 0.3
IsSnapWide(delta) == Abs(delta) < 10 * SnapThreshold

IsSnap(delta) == Abs(delta) < SnapThreshold

\* requestAnimationFrame handle: one no live reference holds
FreshId(used) == CHOOSE i \in 1..(Cardinality(used) + 1) : i \notin used

\* cancelAnimationFrame(id)
Cancel(fs, id) == {f \in fs : f.id # id}

\* the previous frame left scheduled
CancelPreviousSkipped(fs, ref) == fs

\* if (rafRef.current) cancelAnimationFrame(rafRef.current)
CancelPrevious(fs, ref) == IF ref # NoHandle THEN Cancel(fs, ref) ELSE fs

NoStep == [branch |-> "none", current |-> 0, target |-> 0, delta |-> 0]

Init ==
    /\ lifecycle = "new"
    /\ previousLocation = NULL
    /\ busLocation = NULL
    /\ direction = "N"
    /\ degrees = 0
    /\ animatedDeg = 0
    /\ animRef = 0
    /\ rafRef = NoHandle
    /\ frames = {}
    /\ effectDue = FALSE
    /\ step = NoStep
    /\ ticks = 0
    /\ updates = 0

\* the effect without the guard of line 49
LocationEffectNoGuard(prev, bus) ==
    LET bearing == calculateBearing(prev, bus)
    IN  /\ degrees' = bearing
        /\ direction' = bearingToDirection(bearing)
        /\ effectDue' = (bearing # degrees)

\* the effect skipping a pair with equal coordinates, as it skips an absent one
LocationEffectKeepsHeading(prev, bus) ==
    IF bus # NULL /\ prev # NULL /\ calculateBearing(prev, bus) # 0
    THEN LET bearing == calculateBearing(prev, bus)
         IN  /\ degrees' = bearing
             /\ direction' = bearingToDirection(bearing)
             /\ effectDue' = (bearing # degrees)
    ELSE UNCHANGED <<degrees, direction, effectDue>>

\* the label derived from the bearing held before this update
LocationEffectStale(prev, bus) ==
    IF bus # NULL /\ prev # NULL
    THEN LET bearing == calculateBearing(prev, bus)
         IN  /\ degrees' = bearing
             /\ direction' = bearingToDirection(degrees)
             /\ effectDue' = (bearing # degrees)
    ELSE UNCHANGED <<degrees, direction, effectDue>>

\* lines 48-54: the location effect and the render that commits its state
LocationEffect(prev, bus) ==
    IF bus # NULL /\ prev # NULL
    THEN LET bearing == calculateBearing(prev, bus)
         IN  /\ degrees' = bearing
             /\ direction' = bearingToDirection(bearing)
             /\ effectDue' = (bearing # degrees)
    ELSE UNCHANGED <<degrees, direction, effectDue>>

\* lines 57-81: the body of the animation effect
AnimEffectBody(ref, fs) ==
    LET kept == CancelPrevious(fs, ref)
        id == FreshId({f.id : f \in kept} \cup (IF ref = NoHandle THEN {} ELSE {ref}))
    IN  /\ rafRef' = id
        /\ frames' = kept \cup {[id |-> id, target |-> degrees]}

\* a cleanup that cancels nothing
CleanupFramesLeak(fs, ref) == fs

\* lines 83-86: the cleanup of the animation effect
CleanupFrames(fs, ref) == CancelPrevious(fs, ref)

\* first render: both effects run, then the location effect's state commits
Mount(prev, bus) ==
    /\ lifecycle = "new"
    /\ lifecycle' = "mounted"
    /\ previousLocation' = prev
    /\ busLocation' = bus
    /\ AnimEffectBody(rafRef, frames)
    /\ LocationEffect(prev, bus)
    /\ UNCHANGED <<animatedDeg, animRef, step, ticks, updates>>

\* new props: the location effect runs and its state commits
LocationUpdate(prev, bus) ==
    /\ lifecycle = "mounted"
    /\ ~effectDue
    /\ updates < MaxUpdates
    /\ updates' = updates + 1
    /\ previousLocation' = prev
    /\ busLocation' = bus
    /\ LocationEffect(prev, bus)
    /\ UNCHANGED <<lifecycle, animatedDeg, animRef, rafRef, frames, step, ticks>>

\* a re-run that also jumps the needle onto the new target
AnimEffectJump ==
    /\ lifecycle = "mounted"
    /\ effectDue
    /\ effectDue' = FALSE
    /\ AnimEffectBody(NoHandle, CleanupFrames(frames, rafRef))
    /\ ticks' = 0
    /\ animRef' = degrees
    /\ animatedDeg' = degrees
    /\ UNCHANGED <<lifecycle, props, direction, degrees, step, updates>>

\* degrees changed: cleanup of the previous run, then the body again
AnimEffect ==
    /\ lifecycle = "mounted"
    /\ effectDue
    /\ effectDue' = FALSE
    /\ AnimEffectBody(NoHandle, CleanupFrames(frames, rafRef))
    /\ ticks' = 0
    /\ UNCHANGED <<lifecycle, props, direction, degrees, animatedDeg, animRef, step, updates>>

\* a step that never schedules the next frame (line 78 missing)
NextFramesNever(rest, target, delta) == rest

\* a snap branch that falls through to the scheduling of line 78
NextFramesAlways(rest, target, delta) ==
    rest \cup {[id |-> FreshId({g.id : g \in rest}), target |-> target]}

\* the callbacks left pending by a step: the snap branch returns without
\* scheduling (line 72), the ease branch schedules one (line 78)
NextFrames(rest, target, delta) ==
    IF IsSnap(delta)
    THEN rest
    ELSE rest \cup {[id |-> FreshId({g.id : g \in rest}), target |-> target]}

\* lines 61-79: the browser runs a scheduled step
Tick(f) ==
    /\ f \in frames
    /\ LET current == animRef
           target == f.target
           delta == Delta(target, current)
           rest == frames \ {f}
           after == NextFrames(rest, target, delta)
       IN  /\ animRef' = (IF IsSnap(delta) THEN target ELSE Ease(current, delta))
           /\ animatedDeg' = animRef'
           /\ frames' = after
           /\ rafRef' = (IF after = rest THEN rafRef
                         ELSE (CHOOSE g \in after \ rest : TRUE).id)
           /\ step' = [branch |-> IF IsSnap(delta) THEN "snap" ELSE "ease",
                       current |-> current, target |-> target, delta |-> delta]
    /\ ticks' = IF ticks < MaxTickCount THEN ticks + 1 ELSE ticks
    /\ UNCHANGED <<lifecycle, props, direction, degrees, effectDue, updates>>

\* the next display frame: a pending callback fires
Frame == \E f \in frames : Tick(f)

\* teardown: the cleanup of the animation effect
Unmount ==
    /\ lifecycle = "mounted"
    /\ ~effectDue
    /\ lifecycle' = "unmounted"
    /\ frames' = CleanupFrames(frames, rafRef)
    /\ rafRef' = NoHandle
    /\ UNCHANGED <<props, direction, degrees, animatedDeg, animRef, effectDue, step, ticks, updates>>

Next ==
    \/ \E p \in PrevPoints, b \in BusPoints : Mount(p, b)
    \/ \E p \in PrevPoints, b \in BusPoints : LocationUpdate(p, b)
    \/ AnimEffect
    \/ Frame
    \/ Unmount

Spec == Init /\ [][Next]_vars

\* the scheduler runs every pending frame callback and every due effect
FairSpec == Spec /\ WF_vars(Frame) /\ WF_vars(AnimEffect)

\* position updates alone, over every bearing of the fixed-point grid
MountFine ==
    /\ lifecycle = "new"
    /\ \E b \in FineBusPoints : Mount(Pole, b)
NextDir == MountFine
SpecDir == Init /\ [][NextDir]_vars

TypeOK ==
    /\ lifecycle \in {"new", "mounted", "unmounted"}
    /\ degrees \in Int
    /\ animRef \in Int
    /\ effectDue \in BOOLEAN
    /\ ticks \in 0..MaxTickCount

(* ------------------------------ properties ----------------------------- *)
Bearings == 0 .. (Full - 1)

\* unsigned circular distance between two angles
CircDist(a, b) ==
    LET cw == (b - a) % Full
    IN  IF cw <= Full - cw THEN cw ELSE Full - cw

Converged == frames = {} /\ step.branch = "snap" /\ animRef = degrees
Converging == lifecycle = "mounted" /\ frames # {} /\ ~effectDue
Interrupted == lifecycle = "unmounted" \/ effectDue

\* 33 ease ticks take |delta| from 180 below 0.3 (0.82^33 * 180 < 0.3), then one snap
TickBound == 33 + 1

\* C1: with every pending tick eventually fired and no new target, a
\* converging animator reaches currentAngle = target exactly, set by the snap
\* branch, with no tick pending; a run toward one target takes at most
\* TickBound ticks.
C1_Convergence ==
    /\ Converging ~> (Converged \/ Interrupted)
    /\ [](ticks <= TickBound)
C1_Witness ==
    /\ Converged
    /\ lifecycle = "mounted"
    /\ ticks = TickBound
    /\ degrees = Half

\* C2: at most one frame callback is pending in every reachable state, and
\* the pending one is the one rafRef names.
C2_SingleOutstandingTick ==
    /\ Cardinality(frames) <= 1
    /\ \A f \in frames : f.id = rafRef
C2_Witness ==
    /\ step.branch = "ease"
    /\ ticks = 0
    /\ frames = {[id |-> rafRef, target |-> degrees]}
    /\ degrees # step.target

\* C3: teardown leaves no pending callback, and after teardown no tick runs
\* and currentAngle is never written.
C3_TeardownNoOrphan ==
    [][lifecycle' = "unmounted" =>
          /\ frames' = {}
          /\ (lifecycle = "unmounted" => UNCHANGED <<animRef, animatedDeg, step>>)]_vars
C3_Witness ==
    /\ lifecycle = "unmounted"
    /\ step.branch = "ease"
    /\ animRef # degrees
    /\ frames = {}

\* C4: an ease tick whose current and target are not 180 apart moves along
\* the shorter arc, by a positive amount no larger than the distance, so
\* the circular distance to the target strictly decreases; from 350 toward
\* 10 the delta is +20.
C4_ShortestPath ==
    (step.branch = "ease" /\ CircDist(step.current, step.target) # Half) =>
        LET cw == (step.target - step.current) % Full
            moved == IF cw < Half THEN (animRef - step.current) % Full
                                  ELSE (step.current - animRef) % Full
        IN  /\ moved >= 1
            /\ moved <= CircDist(step.current, step.target)
            /\ CircDist(animRef, step.target) < CircDist(step.current, step.target)
            /\ (step.current = Deg(350) /\ step.target = Deg(10)) =>
                   (step.delta = Deg(20) /\ animRef > Deg(350))
C4_Witness ==
    /\ step.branch = "ease"
    /\ step.current = Deg(350)
    /\ step.target = Deg(10)
    /\ step.delta = Deg(20)

\* C5 as claimed: the delta a tick computes lies in (-180, 180].
C5_DeltaRangeClaimed ==
    step.branch # "none" => (step.delta > -Half /\ step.delta <= Half)
\* C5 amended: the delta a tick computes lies in [-180, 180): it is never
\* +180 and is -180 when current and target are 180 apart.
C5_DeltaRange ==
    step.branch # "none" =>
        /\ step.delta >= -Half
        /\ step.delta < Half
        /\ (CircDist(step.current, step.target) = Half => step.delta = -Half)
C5_Witness ==
    /\ step.branch = "ease"
    /\ step.current = 0
    /\ step.target = Half
    /\ step.delta = -Half

Idle == lifecycle = "mounted" /\ frames = {} /\ ~effectDue /\ animRef = degrees

\* C6: a tick that snaps leaves no tick pending, and from the idle state
\* every step that records no new target leaves currentAngle, the displayed
\* angle, the label and the empty schedule unchanged.
C6_IdleStable ==
    [][/\ (Frame /\ step'.branch = "snap") => frames' = {}
       /\ (Idle /\ degrees' = degrees) =>
              (UNCHANGED <<animRef, animatedDeg, direction>> /\ frames' = {})]_vars
C6_Witness ==
    /\ Idle
    /\ step.branch = "snap"
    /\ updates = MaxUpdates
    /\ degrees = Deg(10)
    /\ step.current # Deg(10)

\* C7: the target bearing, currentAngle and the displayed angle are in
\* [0, 360) in every reachable state.
C7_RangeInvariant ==
    /\ degrees \in Bearings
    /\ animRef \in Bearings
    /\ animatedDeg \in Bearings
C7_Witness ==
    /\ step.branch = "ease"
    /\ step.delta > 0
    /\ animRef < step.current
    /\ degrees = Deg(10)

\* C8: the stored label is bearingToDirection of the stored target bearing
\* in every reachable state.
C8_LabelAgrees == direction = bearingToDirection(degrees)
C8_Witness ==
    /\ updates = 1
    /\ degrees = Half
    /\ direction = "S"

\* the 22.5 degree sector centred on 22.5 * i, lower boundary included
InSector(b, i) ==
    IF i = 0
    THEN b < SectorWidth \div 2 \/ b >= Full - SectorWidth \div 2
    ELSE /\ b >= i * SectorWidth - SectorWidth \div 2
         /\ b < i * SectorWidth + SectorWidth \div 2

\* C9: the label is the i-th of the table exactly when the bearing lies in
\* the sector centred on 22.5 * i; a bearing on a boundary belongs to the
\* sector above it.
C9_SectorMapping ==
    lifecycle = "mounted" =>
        \A i \in 0..15 : (direction = directions[i + 1]) <=> InSector(degrees, i)
C9_Witness ==
    /\ lifecycle = "mounted"
    /\ degrees = SectorWidth \div 2
    /\ direction = "NNE"

Labels == {directions[i] : i \in DOMAIN directions}

\* C10: every bearing in [0, 360) has an index in 0..15 and one of the 16
\* labels; 0 is N, 90 is E, 180 is S, 270 is W.
C10_Total ==
    lifecycle = "mounted" =>
        /\ DirectionIndex(degrees) \in 0..15
        /\ direction \in Labels
        /\ Cardinality({i \in DOMAIN directions : directions[i] = direction}) = 1
        /\ (degrees = 0 => direction = "N")
        /\ (degrees = Deg(90) => direction = "E")
        /\ (degrees = Deg(180) => direction = "S")
        /\ (degrees = Deg(270) => direction = "W")
C10_Witness ==
    /\ lifecycle = "mounted"
    /\ degrees = Full - 1
    /\ direction = "N"

Absent == previousLocation = NULL \/ busLocation = NULL
Stationary ==
    /\ ~Absent
    /\ previousLocation.lat = busLocation.lat
    /\ previousLocation.lng = busLocation.lng
Moving == ~Absent /\ ~Stationary

\* a position update: new props after mount
PositionUpdate == updates' = updates + 1

\* C11: calculateBearing is exactly 0 when either point is absent or both
\* have the same coordinates, and a stationary pair stores the target 0.
C11_DegenerateBearing ==
    /\ (Absent \/ Stationary) => calculateBearing(previousLocation, busLocation) = 0
    /\ lifecycle # "new" => \A p \in PrevPoints \cup BusPoints :
           /\ calculateBearing(p, p) = 0
           /\ calculateBearing(NULL, p) = 0
           /\ calculateBearing(p, NULL) = 0
    /\ Stationary => degrees = 0
C11_Witness ==
    /\ Stationary
    /\ updates = 1
    /\ degrees = 0
    /\ animRef # 0

\* C12: a position update with an absent point leaves the target bearing,
\* the label, currentAngle and the displayed angle unchanged and neither
\* schedules nor cancels a tick.
C12_AbsentNoOp ==
    [][(PositionUpdate /\ Absent') =>
          UNCHANGED <<degrees, direction, animRef, animatedDeg, frames, rafRef, effectDue>>]_vars
C12_Witness ==
    /\ Absent
    /\ updates = 1
    /\ degrees = Deg(350)
    /\ direction = "N"
    /\ frames # {}
    /\ step.branch = "ease"

\* the normalization as the specification writes it
SpecNormalize(b) == JsMod(JsMod(b, Full) + Full, Full)

\* C14: for a raw atan2 result in [-180, 180], (b + 360) % 360 is in
\* [0, 360) and equals ((b % 360) + 360) % 360; the stored bearing of a
\* moving pair is that value.
C14_Normalization ==
    /\ Moving =>
          LET b == Atan2Deg(previousLocation, busLocation)
          IN  /\ b \in (-Half) .. Half
              /\ Normalize(b) \in Bearings
              /\ Normalize(b) = SpecNormalize(b)
              /\ degrees = Normalize(b)
    /\ lifecycle # "new" =>
          /\ Normalize(-Half) \in Bearings
          /\ Normalize(-Half) = SpecNormalize(-Half)
C14_Witness ==
    /\ Moving
    /\ Atan2Deg(previousLocation, busLocation) < 0
    /\ degrees > Half

Sign(x) == IF x > 0 THEN 1 ELSE IF x < 0 THEN -1 ELSE 0

\* C13: a tick whose current and target are 180 apart computes a delta of
\* magnitude 180, and a tick that follows an ease tick toward the same
\* target computes a delta of the same sign: the needle turns one way.
C13_Antipodal ==
    [][/\ (step'.branch # "none" /\ CircDist(step'.current, step'.target) = Half)
              => Abs(step'.delta) = Half
       /\ (Frame /\ step.branch = "ease" /\ step'.target = step.target)
              => Sign(step'.delta) = Sign(step.delta)]_vars
C13_Witness ==
    /\ step.target = Half
    /\ step.branch = "ease"
    /\ ticks = 2
    /\ step.current = Ease(0, -Half)
    /\ step.delta < 0
    /\ degrees = Half

\* C15: only a tick writes currentAngle and the displayed angle; position
\* updates, the re-run of the animation effect and teardown leave them.
C15_OnlyTickWrites ==
    [][~Frame => UNCHANGED <<animRef, animatedDeg>>]_vars
C15_Witness ==
    /\ updates = 1
    /\ ticks = 0
    /\ ~effectDue
    /\ step.branch = "ease"
    /\ animRef = Ease(step.current, step.delta)
    /\ animRef # degrees
    /\ animRef # 0
    /\ degrees # step.target

\* C16: every tick that runs computes its delta against the target stored
\* at that moment.
C16_NoStaleTick ==
    [][Frame => step'.target = degrees]_vars

\* C17 as claimed: a mounted animator with no tick pending has currentAngle
\* equal to the stored target.
C17_IdleImpliesConverged ==
    (lifecycle = "mounted" /\ frames = {}) => animRef = degrees
\* C17 amended: a mounted animator with no tick pending and no re-run of the
\* animation effect due has currentAngle equal to the stored target.
C17_IdleOrDue ==
    (lifecycle = "mounted" /\ frames = {} /\ ~effectDue) => animRef = degrees
C17_Witness ==
    /\ lifecycle = "mounted"
    /\ frames = {}
    /\ ~effectDue
    /\ animRef = Deg(350)
    /\ degrees = Deg(350)
    /\ updates = 1

\* C18: a tick with |delta| < 0.3 stores the target and leaves no tick
\* pending; a tick with |delta| >= 0.3 stores (current + 0.18 * delta + 360)
\* mod 360 and leaves exactly one tick pending.
C18_TickStep ==
    [][Frame =>
          LET d == step'.delta
          IN  /\ step'.current = animRef
              /\ (Abs(d) < SnapThreshold) =>
                     /\ step'.branch = "snap"
                     /\ animRef' = step'.target
                     /\ frames' = {}
              /\ (Abs(d) >= SnapThreshold) =>
                     /\ step'.branch = "ease"
                     /\ animRef' = (animRef + MulRatio(d, EasePct, 100) + Full) % Full
                     /\ Cardinality(frames') = 1
                     /\ \A f \in frames' : f.target = step'.target /\ f.id = rafRef'
              /\ animatedDeg' = animRef']_vars
C18_Witness ==
    /\ step.branch = "ease"
    /\ ticks = 1
    /\ Abs(step.delta) >= SnapThreshold
    /\ Abs(step.delta) < 10 * SnapThreshold
    /\ Cardinality(frames) = 1

AtNorth == frames = {} /\ ~effectDue /\ animRef = 0

\* C19: a position update with two present, coordinate-equal points stores
\* the target 0 and the label N, and the animator then reaches 0 unless it
\* is torn down or given another pair.
C19_StationaryToNorth ==
    /\ [][(PositionUpdate /\ Stationary') => (degrees' = 0 /\ direction' = "N")]_vars
    /\ (lifecycle = "mounted" /\ Stationary)
           ~> (AtNorth \/ ~Stationary \/ lifecycle = "unmounted")
C19_Witness ==
    /\ lifecycle = "mounted"
    /\ Stationary
    /\ updates = 1
    /\ AtNorth
    /\ step.branch = "snap"
    /\ step.delta # 0
====
